---- MODULE Spec2Model ----
(***************************************************************************)
(* Model of src/main.py (MathMaster_Pro): a SQLite file with the tables    *)
(* students, test_results and fee_records, created by init_db() at module  *)
(* load, and four tool handlers (add_student, delete_student,              *)
(* record_test_score, get_student_report), each of which opens its own     *)
(* aiosqlite connection.  Handlers of different callers interleave at      *)
(* their await points; the database engine serialises writers.            *)
(*                                                                         *)
(* Values: dates are day numbers standing for ISO "YYYY-MM-DD" strings     *)
(* (whose lexicographic order is the numeric order of the day numbers);    *)
(* fees are numbers standing for the REAL column values.                   *)
(***************************************************************************)
EXTENDS Integers, Sequences, FiniteSets, TLC

\* ------------------------------------------------------------------ bounds
MaxCalls == 4     \* handler calls the model follows

Callers == {"c1", "c2"}
Names == {"Ada", "Bob"}
Grades == {"Grade 9"}
Fees == {150}
Topics == {"Algebra"}
Dates == {1, 2}
JoinDates == {1}                  \* CURRENT_DATE at the registrations
NoDate == 0                       \* date: Optional[str] = None
DateArgs == Dates \cup {NoDate}
StudentIdArgs == {1, 2}           \* ids the callers pass

AllTables == {"students", "test_results", "fee_records"}

VARIABLES
    schema,          \* tables present in the database file
    students,        \* rows of students
    test_results,    \* rows of test_results
    fee_records,     \* rows of fee_records
    sqlite_sequence, \* AUTOINCREMENT counters, per table
    lock,            \* caller whose connection holds the write lock, or NoCaller
    serverUp,        \* the serving process got past init_db()
    pc,              \* per caller: await point of the handler it is in
    arg,             \* per caller: student_id argument of the handler in flight
    local,           \* per caller: row fetched by the handler in flight
    result,          \* what the last call to finish gave back
    issued,          \* ids returned by successful add_student calls (history)
    deletes,         \* per id: delete_student calls that returned success (history)
    calls            \* handler calls made so far (history)

vars == <<schema, students, test_results, fee_records, sqlite_sequence, lock,
          serverUp, pc, arg, local, result, issued, deletes, calls>>

NoCaller == "none"
NoRow == [id |-> 0, name |-> "", grade |-> "", monthly_fee |-> 0, joined_date |-> 0]
NoStatus == "absent"

\* Shape of a handler's return value.  status is NoStatus when the mapping
\* has no "status" key (the report payload); student_id is lastrowid;
\* name is the value substituted into the message.
Result(op, status, message, id, sid, name, profile, history) ==
    [op |-> op, status |-> status, message |-> message, for_id |-> id,
     student_id |-> sid, name |-> name, profile |-> profile,
     academic_history |-> history]

NoResult == Result("none", NoStatus, "", 0, 0, "", NoRow, <<>>)

\* except Exception as e: return {"status": "error", "message": str(e)}
ErrorResult(op, id) == Result(op, "error", "str(e)", id, 0, "", NoRow, <<>>)

\* ---------------------------------------------------------- connections
\* SQLite's foreign_keys setting belongs to a connection and starts at the
\* library default on every new one.
DefaultForeignKeys == FALSE

\* init_db() issues PRAGMA foreign_keys = ON on its own connection, which
\* it closes on return; the handlers issue no PRAGMA on theirs.
HandlerForeignKeys == DefaultForeignKeys

\* ------------------------------------------------------------ statements
Max(S) == IF S = {} THEN 0 ELSE CHOOSE x \in S : \A y \in S : y <= x

\* (variant: INTEGER PRIMARY KEY without AUTOINCREMENT, one more than the
\* largest id now in the table)
NextRowid(rows, counter) == Max({r.id : r \in rows}) + 1

\* id INTEGER PRIMARY KEY AUTOINCREMENT: one more than the largest id the
\* table has ever held.
NextId(rows, counter) == Max({r.id : r \in rows} \cup {counter}) + 1

\* (variant: the SELECT without its WHERE clause)
FetchFirst(rows, id) ==
    IF rows = {} THEN NoRow ELSE CHOOSE r \in rows : \A q \in rows : r.id <= q.id

\* SELECT ... FROM students WHERE id = ?  followed by fetchone()
FetchStudent(rows, id) ==
    IF \E r \in rows : r.id = id
    THEN CHOOSE r \in rows : r.id = id
    ELSE NoRow

\* (variant: the DELETE without its WHERE clause)
DeleteEveryRow(rows, id) == {}

\* DELETE FROM students WHERE id = ?
DeleteStudentRow(rows, id) == {r \in rows : r.id # id}

\* ON DELETE CASCADE of the child tables, in force only on a connection
\* with foreign_keys on.
Cascade(children, id, fk) ==
    IF fk THEN {r \in children : r.student_id # id} ELSE children

\* FOREIGN KEY(student_id) REFERENCES students(id), checked only on a
\* connection with foreign_keys on.
ForeignKeyViolated(rows, sid, fk) == fk /\ ~(\E r \in rows : r.id = sid)

RECURSIVE ScanById(_)
\* rows of a table in rowid order, which is the order of a SELECT without
\* ORDER BY over a table scan
ScanById(rows) ==
    IF rows = {} THEN <<>>
    ELSE LET first == CHOOSE r \in rows : \A q \in rows : r.id <= q.id
         IN <<first>> \o ScanById(rows \ {first})

RECURSIVE ScanByDateDesc(_)
\* rows in the order of ORDER BY test_date DESC, id DESC
ScanByDateDesc(rows) ==
    IF rows = {} THEN <<>>
    ELSE LET first == CHOOSE r \in rows : \A q \in rows :
                          \/ r.test_date > q.test_date
                          \/ r.test_date = q.test_date /\ r.id >= q.id
         IN <<first>> \o ScanByDateDesc(rows \ {first})

\* (variant: the SELECT with ORDER BY test_date DESC, id DESC)
SelectTestsByDate(rows, sid) ==
    ScanByDateDesc({r \in rows : r.student_id = sid})

\* SELECT * FROM test_results WHERE student_id = ?  followed by fetchall()
SelectTests(rows, sid) == ScanById({r \in rows : r.student_id = sid})

\* test_date = date if date else datetime.now().strftime("%Y-%m-%d")
TestDate(date, now) == IF date # NoDate THEN date ELSE now

\* --------------------------------------------------------------- Init
\* State after the first module load: init_db() has created the tables in
\* an empty file and the server is serving.
Init ==
    /\ schema = AllTables
    /\ students = {}
    /\ test_results = {}
    /\ fee_records = {}
    /\ sqlite_sequence = [t \in {"students", "test_results"} |-> 0]
    /\ lock = NoCaller
    /\ serverUp = TRUE
    /\ pc = [c \in Callers |-> "idle"]
    /\ arg = [c \in Callers |-> 0]
    /\ local = [c \in Callers |-> NoRow]
    /\ result = NoResult
    /\ issued = {}
    /\ deletes = [i \in StudentIdArgs |-> 0]
    /\ calls = 0

\* ------------------------------------------------------------- init_db
\* Module load: CREATE TABLE IF NOT EXISTS for the three tables.  A fault
\* is logged and re-raised, which aborts the load.  No handler of the
\* process is in flight while the module loads.
\* (variant: the tables are dropped and created anew)
InitDbRecreate(fault) ==
    /\ \A c \in Callers : pc[c] = "idle"
    /\ schema' = AllTables
    /\ students' = {}
    /\ test_results' = {}
    /\ fee_records' = {}
    /\ sqlite_sequence' = [t \in DOMAIN sqlite_sequence |-> 0]
    /\ serverUp' = ~fault
    /\ result' = Result("init_db", NoStatus,
                        "Database schema verified/initialized.",
                        0, 0, "", NoRow, <<>>)
    /\ UNCHANGED <<lock, pc, arg, local, issued, deletes, calls>>

InitDb(fault) ==
    /\ \A c \in Callers : pc[c] = "idle"
    /\ schema' = IF fault THEN schema ELSE schema \cup AllTables
    /\ serverUp' = ~fault
    /\ result' = IF fault THEN Result("init_db", NoStatus, "DB Init Failed: {e}",
                                     0, 0, "", NoRow, <<>>)
                  ELSE Result("init_db", NoStatus,
                              "Database schema verified/initialized.",
                              0, 0, "", NoRow, <<>>)
    /\ UNCHANGED <<students, test_results, fee_records, sqlite_sequence,
                   lock, pc, arg, local, issued, deletes, calls>>

\* ------------------------------------------------------------ handlers
\* Every handler is
\*     try:
\*         async with aiosqlite.connect(DB_PATH) as db: ...
\*     except Exception as e:
\*         return {"status": "error", "message": str(e)}
\* A fault parameter names the await at which the storage layer raises
\* ("none": nowhere).  A statement that writes runs in the connection's
\* implicit transaction and holds the write lock until the commit; leaving
\* the connection without a successful commit rolls the transaction back.
WriteFaults == {"none", "execute", "commit"}

\* (variant: autocommit, every statement is durable at once)
CommitEach(before, txn, fault) == txn

\* Table contents after the connection is left: txn if the commit went
\* through, the contents before the transaction otherwise.
Commit(before, txn, fault) == IF fault = "none" THEN txn ELSE before

\* A writing statement needs the write lock; while another connection
\* holds it the statement waits, or gives up with "database is locked".
CanWrite(c, fault) == fault = "execute" \/ lock \in {NoCaller, c}

\* ---------------------------------------------------------- add_student
AddStudent(c, name, grade, monthly_fee, now, fault) ==
    /\ serverUp
    /\ calls < MaxCalls
    /\ calls' = calls + 1
    /\ pc[c] = "idle"
    /\ CanWrite(c, fault)
    /\ LET id == NextId(students, sqlite_sequence["students"])
           row == [id |-> id, name |-> name, grade |-> grade,
                   monthly_fee |-> monthly_fee, joined_date |-> now]
           inserted == IF fault = "execute" THEN students
                       ELSE students \cup {row}
           counted == IF fault = "execute" THEN sqlite_sequence
                      ELSE [sqlite_sequence EXCEPT !["students"] = id]
       IN /\ students' = Commit(students, inserted, fault)
          /\ sqlite_sequence' = Commit(sqlite_sequence, counted, fault)
          /\ issued' = IF fault = "none" THEN issued \cup {id} ELSE issued
          /\ result' =
                IF fault = "none"
                THEN Result("add_student", "success", "", 0, id, "", NoRow, <<>>)
                ELSE ErrorResult("add_student", 0)
    /\ UNCHANGED <<schema, test_results, fee_records, lock, serverUp,
                   pc, arg, local, deletes>>

\* ---------------------------------------------------- record_test_score
RecordTestScore(c, student_id, topic, marks, total, date, now, fault) ==
    /\ serverUp
    /\ calls < MaxCalls
    /\ calls' = calls + 1
    /\ pc[c] = "idle"
    /\ CanWrite(c, fault)
    /\ LET id == NextId(test_results, sqlite_sequence["test_results"])
           row == [id |-> id, student_id |-> student_id,
                   test_date |-> TestDate(date, now), topic |-> topic,
                   marks_obtained |-> marks, total_marks |-> total]
           \* an IntegrityError of the INSERT is a fault at execute
           raised == IF ForeignKeyViolated(students, student_id, HandlerForeignKeys)
                     THEN "execute" ELSE fault
           inserted == IF raised = "execute" THEN test_results
                       ELSE test_results \cup {row}
           counted == IF raised = "execute" THEN sqlite_sequence
                      ELSE [sqlite_sequence EXCEPT !["test_results"] = id]
       IN /\ test_results' = Commit(test_results, inserted, raised)
          /\ sqlite_sequence' = Commit(sqlite_sequence, counted, raised)
          /\ result' =
                IF raised = "none"
                THEN Result("record_test_score", "success",
                            "Recorded score for {topic}.", student_id, 0,
                            topic, NoRow, <<>>)
                ELSE ErrorResult("record_test_score", student_id)
    /\ UNCHANGED <<schema, students, fee_records, lock, serverUp,
                   pc, arg, local, issued, deletes>>

\* ------------------------------------------------------- delete_student
\* First await: SELECT name FROM students WHERE id = ? and fetchone().
DeleteCheck(c, student_id, fault) ==
    /\ serverUp
    /\ calls < MaxCalls
    /\ calls' = calls + 1
    /\ pc[c] = "idle"
    /\ LET student == FetchStudent(students, student_id)
       IN IF fault
          THEN /\ result' =
                      ErrorResult("delete_student", student_id)
               /\ UNCHANGED <<pc, arg, local>>
          ELSE IF student = NoRow
          THEN /\ result' =
                      Result("delete_student", "error",
                             "Student ID {student_id} not found.",
                             student_id, 0, "", NoRow, <<>>)
               /\ UNCHANGED <<pc, arg, local>>
          ELSE /\ pc' = [pc EXCEPT ![c] = "delete_checked"]
               /\ arg' = [arg EXCEPT ![c] = student_id]
               /\ local' = [local EXCEPT ![c] = student]
               /\ UNCHANGED result
    /\ UNCHANGED <<schema, students, test_results, fee_records,
                   sqlite_sequence, lock, serverUp, issued, deletes>>

\* Second await: DELETE FROM students WHERE id = ?  It takes the write lock
\* and its effect stays in the connection's transaction.
DeleteExecute(c, fault) ==
    /\ UNCHANGED calls
    /\ pc[c] = "delete_checked"
    /\ IF fault
       THEN /\ pc' = [pc EXCEPT ![c] = "idle"]
            /\ arg' = [arg EXCEPT ![c] = 0]
            /\ local' = [local EXCEPT ![c] = NoRow]
            /\ result' = ErrorResult("delete_student", arg[c])
            /\ UNCHANGED lock
       ELSE /\ lock = NoCaller
            /\ lock' = c
            /\ pc' = [pc EXCEPT ![c] = "delete_executed"]
            /\ UNCHANGED <<arg, local, result>>
    /\ UNCHANGED <<schema, students, test_results, fee_records,
                   sqlite_sequence, serverUp, issued, deletes>>

\* (variant: the handler looks at the DELETE's rowcount and reports a
\* missing row)
DeleteCommitCounted(c, fault) ==
    /\ pc[c] = "delete_executed"
    /\ UNCHANGED calls
    /\ students' = Commit(students, DeleteStudentRow(students, arg[c]),
                          IF fault THEN "commit" ELSE "none")
    /\ UNCHANGED <<test_results, fee_records>>
    /\ lock' = NoCaller
    /\ pc' = [pc EXCEPT ![c] = "idle"]
    /\ arg' = [arg EXCEPT ![c] = 0]
    /\ local' = [local EXCEPT ![c] = NoRow]
    /\ result' =
          IF fault THEN ErrorResult("delete_student", arg[c])
          ELSE IF FetchStudent(students, arg[c]) = NoRow
          THEN Result("delete_student", "error",
                      "Student ID {student_id} not found.",
                      arg[c], 0, "", NoRow, <<>>)
          ELSE Result("delete_student", "success",
                      "Student {student[0]} and all records deleted.",
                      arg[c], 0, local[c].name, NoRow, <<>>)
    /\ deletes' = IF fault \/ FetchStudent(students, arg[c]) = NoRow
                  THEN deletes
                  ELSE [deletes EXCEPT ![arg[c]] = @ + 1]
    /\ UNCHANGED <<schema, sqlite_sequence, serverUp, issued>>

\* Third await: commit, then
\*     return {"status": "success", "message": f"Student {student[0]} ..."}
\* No other connection writes between the DELETE and its commit, so the
\* rows the DELETE removes are those matching at the commit.
DeleteCommit(c, fault) ==
    /\ UNCHANGED calls
    /\ pc[c] = "delete_executed"
    /\ LET raised == IF fault THEN "commit" ELSE "none"
       IN /\ students' = Commit(students,
                                DeleteStudentRow(students, arg[c]), raised)
          /\ test_results' = Commit(test_results,
                Cascade(test_results, arg[c], HandlerForeignKeys), raised)
          /\ fee_records' = Commit(fee_records,
                Cascade(fee_records, arg[c], HandlerForeignKeys), raised)
    /\ lock' = NoCaller
    /\ pc' = [pc EXCEPT ![c] = "idle"]
    /\ arg' = [arg EXCEPT ![c] = 0]
    /\ local' = [local EXCEPT ![c] = NoRow]
    /\ result' =
          IF fault THEN ErrorResult("delete_student", arg[c])
          ELSE Result("delete_student", "success",
                      "Student {student[0]} and all records deleted.",
                      arg[c], 0, local[c].name, NoRow, <<>>)
    /\ deletes' = IF fault THEN deletes
                  ELSE [deletes EXCEPT ![arg[c]] = @ + 1]
    /\ UNCHANGED <<schema, sqlite_sequence, serverUp, issued>>

\* --------------------------------------------------- get_student_report
\* return {"status": "error", "message": "Student not found"}
ReportNotFound(student_id) ==
    Result("get_student_report", "error", "Student not found", student_id,
           0, "", NoRow, <<>>)

\* return {"profile": dict(profile), "academic_history": tests}
ReportPayload(student_id, profile, tests) ==
    Result("get_student_report", NoStatus, "", student_id, 0, "", profile,
           tests)

\* What the handler returns when no other call runs between its awaits.
GetStudentReport(rows, tests, student_id) ==
    IF FetchStudent(rows, student_id) = NoRow
    THEN ReportNotFound(student_id)
    ELSE ReportPayload(student_id, FetchStudent(rows, student_id),
                       SelectTests(tests, student_id))

\* First await: SELECT * FROM students WHERE id = ? and fetchone().
ReportProfile(c, student_id, fault) ==
    /\ serverUp
    /\ calls < MaxCalls
    /\ calls' = calls + 1
    /\ pc[c] = "idle"
    /\ LET profile == FetchStudent(students, student_id)
       IN IF fault
          THEN /\ result' =
                      ErrorResult("get_student_report", student_id)
               /\ UNCHANGED <<pc, arg, local>>
          ELSE IF profile = NoRow
          THEN /\ result' = ReportNotFound(student_id)
               /\ UNCHANGED <<pc, arg, local>>
          ELSE /\ pc' = [pc EXCEPT ![c] = "report_profile"]
               /\ arg' = [arg EXCEPT ![c] = student_id]
               /\ local' = [local EXCEPT ![c] = profile]
               /\ UNCHANGED result
    /\ UNCHANGED <<schema, students, test_results, fee_records,
                   sqlite_sequence, lock, serverUp, issued, deletes>>

\* Second await: SELECT * FROM test_results WHERE student_id = ?, then
\*     return {"profile": dict(profile), "academic_history": tests}
ReportTests(c, fault) ==
    /\ UNCHANGED calls
    /\ pc[c] = "report_profile"
    /\ pc' = [pc EXCEPT ![c] = "idle"]
    /\ arg' = [arg EXCEPT ![c] = 0]
    /\ local' = [local EXCEPT ![c] = NoRow]
    /\ result' =
          IF fault THEN ErrorResult("get_student_report", arg[c])
          ELSE ReportPayload(arg[c], local[c],
                             SelectTests(test_results, arg[c]))
    /\ UNCHANGED <<schema, students, test_results, fee_records,
                   sqlite_sequence, lock, serverUp, issued, deletes>>

\* ----------------------------------------------------------------- Next
Next ==
    \/ \E f \in BOOLEAN : InitDb(f)
    \/ \E c \in Callers, n \in Names, g \in Grades, m \in Fees, d \in JoinDates,
          f \in WriteFaults : AddStudent(c, n, g, m, d, f)
    \/ \E c \in Callers, s \in StudentIdArgs, t \in Topics, d \in DateArgs,
          now \in Dates, f \in WriteFaults :
            RecordTestScore(c, s, t, 5, 10, d, now, f)
    \/ \E c \in Callers, s \in StudentIdArgs, f \in BOOLEAN : DeleteCheck(c, s, f)
    \/ \E c \in Callers, f \in BOOLEAN : DeleteExecute(c, f)
    \/ \E c \in Callers, f \in BOOLEAN : DeleteCommit(c, f)
    \/ \E c \in Callers, s \in StudentIdArgs, f \in BOOLEAN : ReportProfile(c, s, f)
    \/ \E c \in Callers, f \in BOOLEAN : ReportTests(c, f)

Spec == Init /\ [][Next]_vars

\* ------------------------------------------------------------ properties
tables == <<students, test_results, fee_records>>

Ids(rows) == {r.id : r \in rows}

IsReport(r) == r.op = "get_student_report" /\ r.status = NoStatus

\* C1: once delete_student(R) has returned success, no test_results row and
\* no fee_records row has student_id R.
C1_CascadeDelete ==
    [][\A c \in Callers :
          DeleteCommit(c, FALSE) =>
             \A r \in test_results' \cup fee_records' : r.student_id # arg[c]
      ]_vars

\* C2: delete_student and get_student_report called with an id that no
\* add_student call has returned give an error result (the handler's "not
\* found" message unless the storage layer raised), end the call and leave
\* the three tables unchanged.
C2_NotFound ==
    [][\A c \in Callers, s \in StudentIdArgs, f \in BOOLEAN :
          (s \notin issued /\ (DeleteCheck(c, s, f) \/ ReportProfile(c, s, f)))
          => /\ result'.status = "error"
             /\ result'.for_id = s
             /\ ~f => result'.message \in {"Student ID {student_id} not found.",
                                          "Student not found"}
             /\ pc'[c] = "idle"
             /\ UNCHANGED tables
      ]_vars

\* C2 witness: a "not found" answer for an id never issued, given while the
\* students table holds rows.
C2_Witness ==
    /\ result.status = "error"
    /\ result.message \in {"Student ID {student_id} not found.",
                           "Student not found"}
    /\ result.for_id \notin issued
    /\ students # {}

\* C3: right after add_student(name, grade, fee) returns id, the report of id
\* carries that name, grade and fee and an empty academic history.
C3_FreshRoundTrip ==
    [][\A c \in Callers, n \in Names, g \in Grades, m \in Fees, d \in JoinDates :
          AddStudent(c, n, g, m, d, "none") =>
             LET r == GetStudentReport(students', test_results',
                                       result'.student_id)
             IN /\ IsReport(r)
                /\ r.profile.name = n
                /\ r.profile.grade = g
                /\ r.profile.monthly_fee = m
                /\ r.academic_history = <<>>
      ]_vars

C5_ReferentialCheck ==
    [][\A c \in Callers, s \in StudentIdArgs, t \in Topics, d \in DateArgs,
          now \in Dates, f \in WriteFaults :
          (FetchStudent(students, s) = NoRow
             /\ RecordTestScore(c, s, t, 5, 10, d, now, f))
          => /\ result'.status = "error"
             /\ test_results' = test_results
      ]_vars

\* C6: running init_db again leaves the set of tables, every row of the
\* three tables and the AUTOINCREMENT counters as they were.
C6_InitIdempotent ==
    [][\A f \in BOOLEAN :
          InitDb(f) => UNCHANGED <<schema, students, test_results,
                                   fee_records, sqlite_sequence>>
      ]_vars

\* C6 witness: init_db has just run again on a database holding students
\* and test results.
C6_Witness ==
    /\ result.op = "init_db"
    /\ result.message = "Database schema verified/initialized."
    /\ students # {}
    /\ test_results # {}
    /\ sqlite_sequence["students"] > 0

\* C7: a successful add_student returns an id that no earlier add_student
\* returned, deleted students included; a row that appears in students has
\* such a fresh id (so no stored row changes its id), and no two rows share
\* an id.
C7_UniqueIds ==
    [][/\ \A c \in Callers, n \in Names, g \in Grades, m \in Fees,
             d \in JoinDates :
             AddStudent(c, n, g, m, d, "none") =>
                /\ result'.student_id \notin issued
                /\ result'.student_id \in Ids(students')
       /\ \A r \in students' \ students :
             r.id \notin issued /\ r.id \notin Ids(students)
       /\ \A r, q \in students' : r.id = q.id => r = q
      ]_vars

\* C7 witness: add_student has just returned an id after a student with a
\* smaller id was deleted.
C7_Witness ==
    /\ result.op = "add_student"
    /\ result.status = "success"
    /\ \E i \in issued : i < result.student_id /\ i \notin Ids(students)

\* C8: when the storage layer raises at an await of a handler, the handler
\* returns {"status": "error", "message": str(e)}, the caller and the server
\* stay ready for further calls, the write lock is not left held, and the
\* tables and AUTOINCREMENT counters are as before the step.
C8_FaultContained ==
    [][\A c \in Callers :
          (\/ \E n \in Names, g \in Grades, m \in Fees, d \in JoinDates,
                 f \in WriteFaults \ {"none"} : AddStudent(c, n, g, m, d, f)
           \/ \E s \in StudentIdArgs, t \in Topics, d \in DateArgs,
                 now \in Dates, f \in WriteFaults \ {"none"} :
                 RecordTestScore(c, s, t, 5, 10, d, now, f)
           \/ \E s \in StudentIdArgs : DeleteCheck(c, s, TRUE)
           \/ DeleteExecute(c, TRUE)
           \/ DeleteCommit(c, TRUE)
           \/ \E s \in StudentIdArgs : ReportProfile(c, s, TRUE)
           \/ ReportTests(c, TRUE))
          => /\ result'.status = "error"
             /\ result'.message = "str(e)"
             /\ pc'[c] = "idle"
             /\ lock' # c
             /\ serverUp'
             /\ UNCHANGED <<tables, sqlite_sequence, schema>>
      ]_vars

\* C8 witness: delete_student has returned the fault result and the student
\* it was to delete is still stored, with the server up and nobody holding
\* the write lock.
C8_Witness ==
    /\ result = ErrorResult("delete_student", result.for_id)
    /\ result.for_id \in Ids(students)
    /\ serverUp
    /\ lock = NoCaller
    /\ \A c \in Callers : pc[c] = "idle"

\* C9: a delete_student call whose existence check passed and whose DELETE
\* then finds no row (another caller deleted the student in between) still
\* returns success, and removes nothing.
C9_DeleteRace ==
    [][\A c \in Callers :
          (DeleteCommit(c, FALSE) /\ arg[c] \notin Ids(students))
          => /\ result'.status = "success"
             /\ result'.op = "delete_student"
             /\ students' = students
      ]_vars

\* C9 witness: two delete_student calls have returned success for one id.
C9_Witness == \E i \in StudentIdArgs : deletes[i] = 2

\* C10: add_student adds exactly one students row and record_test_score
\* exactly one test_results row, each leaving every other row in place;
\* get_student_report changes no table; a successful delete_student(R)
\* removes no students row other than R's and no test_results or fee_records
\* row of another student; no step adds a row under an id already stored
\* (a stored row's fields never change).
C10_Frame ==
    [][/\ \A c \in Callers, n \in Names, g \in Grades, m \in Fees,
             d \in JoinDates :
             AddStudent(c, n, g, m, d, "none") =>
                /\ students \subseteq students'
                /\ Cardinality(students') = Cardinality(students) + 1
                /\ UNCHANGED <<test_results, fee_records>>
       /\ \A c \in Callers, s \in StudentIdArgs, t \in Topics, d \in DateArgs,
             now \in Dates :
             RecordTestScore(c, s, t, 5, 10, d, now, "none") =>
                /\ test_results \subseteq test_results'
                /\ Cardinality(test_results') = Cardinality(test_results) + 1
                /\ UNCHANGED <<students, fee_records>>
       /\ \A c \in Callers, s \in StudentIdArgs, f \in BOOLEAN :
             (ReportProfile(c, s, f) \/ ReportTests(c, f)) => UNCHANGED tables
       /\ \A c \in Callers :
             DeleteCommit(c, FALSE) =>
                /\ students' \subseteq students
                /\ test_results' \subseteq test_results
                /\ fee_records' \subseteq fee_records
                /\ \A r \in students \ students' : r.id = arg[c]
                /\ \A r \in (test_results \ test_results')
                            \cup (fee_records \ fee_records') :
                      r.student_id = arg[c]
       /\ \A r \in students' \ students : r.id \notin Ids(students)
       /\ \A r \in test_results' \ test_results : r.id \notin Ids(test_results)
      ]_vars

\* C10 witness: delete_student has returned success while another student
\* and a test result of another student are still stored.
C10_Witness ==
    /\ result.op = "delete_student"
    /\ result.status = "success"
    /\ \E r \in students : r.id # result.for_id
    /\ \E e \in test_results : e.student_id # result.for_id
====
